---- MODULE Spec2Model ----
(***************************************************************************)
(* Model of openlane/common/metrics/util.py: the METRICS2.1 name parser,   *)
(* the roll-up aggregator, the metric diff and its Markdown report.        *)
(*                                                                         *)
(* A Python str is a sequence of one-character strings; a dict that is     *)
(* iterated is a sequence of <<key, value>> pairs with distinct keys (in   *)
(* insertion order); a dict that is only looked up is a function.          *)
(***************************************************************************)
EXTENDS Integers, Sequences, FiniteSets, TLC

VARIABLES
    pc,                     \* which call has run on the inputs of this behaviour
    metric_name,            \* parse_metric_modifiers: its argument
    built_base, built_mods, \* the base and modifier segments metric_name was joined from
    parsed,                 \* parse_metric_modifiers: what it returned or raised
    input,                  \* aggregate_metrics: the input mapping, in iteration order
    aggregator_by_metric,   \* aggregate_metrics: the rule registry
    final_values,           \* aggregate_metrics: what it returned or raised
    gold, new, filter,      \* MetricDiff.from_metrics: its arguments
    differences,            \* MetricDiff.differences
    sort_by, table_verbosity, \* render_md: its arguments
    table,                  \* render_md: what it returned
    statistics              \* stats: what it returned

vars == <<pc, metric_name, built_base, built_mods, parsed, input,
          aggregator_by_metric, final_values, gold, new, filter, differences,
          sort_by, table_verbosity, table, statistics>>

----------------------------------------------------------------------------
(* Bounds of the model.                                                    *)

MaxBaseLen == 4     \* longest base string a parsed name is built from
MaxMods == 2        \* most modifier segments joined onto that base
MaxEntries == 2     \* most entries of an aggregated snapshot
MaxVal == 1         \* metric values are 0..MaxVal
MaxKeys == 2        \* most entries of the snapshot "new" of a diff
MaxRows == 2        \* most comparison results of a rendered MetricDiff

----------------------------------------------------------------------------
(* Strings.                                                                *)

None == "None"

\* Code points of the characters the model's strings are made of.
Ord(c) ==
    CASE c = "-" -> 45
      [] c = ":" -> 58
      [] c = "_" -> 95
      [] c = "a" -> 97
      [] c = "b" -> 98
      [] c = "k" -> 107
      [] c = "m" -> 109
      [] c = "n" -> 110
      [] c = "u" -> 117
      [] c = "x" -> 120
      [] c = "y" -> 121

SetMin(S) == CHOOSE x \in S : \A y \in S : x <= y

\* str < str: lexicographic by code point, a proper prefix first.
StrLess(s, t) ==
    \E i \in 1..(Len(t)) :
        /\ i <= Len(s) + 1
        /\ \A j \in 1..(i - 1) : s[j] = t[j]
        /\ \/ i = Len(s) + 1
           \/ (i <= Len(s) /\ Ord(s[i]) < Ord(t[i]))

\* str.split("__"): left to right, non-overlapping.
RECURSIVE SplitSep(_)
SplitSep(s) ==
    LET at == {i \in 1..(Len(s) - 1) : s[i] = "_" /\ s[i + 1] = "_"}
    IN  IF at = {} THEN <<s>>
        ELSE LET i == SetMin(at)
             IN  <<SubSeq(s, 1, i - 1)>> \o SplitSep(SubSeq(s, i + 2, Len(s)))

\* "__".join(parts)
RECURSIVE JoinSep(_)
JoinSep(parts) ==
    IF Len(parts) = 0 THEN <<>>
    ELSE IF Len(parts) = 1 THEN parts[1]
    ELSE parts[1] \o <<"_", "_">> \o JoinSep(Tail(parts))

\* ":" in part
HasColon(part) == \E i \in 1..Len(part) : part[i] = ":"

\* part.split(":", maxsplit=1)
SplitColon(part) ==
    LET i == SetMin({j \in 1..Len(part) : part[j] = ":"})
    IN  <<SubSeq(part, 1, i - 1), SubSeq(part, i + 1, Len(part))>>

\* [\w\-]
IsWordChar(c) == c \notin {":"}

\* modifier_rx finds a match in part: a ':' between two characters of [\w\-].
ModifierRxSearch(part) ==
    \E i \in 2..(Len(part) - 1) :
        part[i] = ":" /\ IsWordChar(part[i - 1]) /\ IsWordChar(part[i + 1])

\* dict[key] = value on an insertion-ordered dict: a key already present keeps
\* its position.
DictSet(d, key, value) ==
    IF \E i \in 1..Len(d) : d[i][1] = key
    THEN [i \in 1..Len(d) |-> IF d[i][1] = key THEN <<key, value>> ELSE d[i]]
    ELSE Append(d, <<key, value>>)

DictKeys(d) == [i \in 1..Len(d) |-> d[i][1]]

DictKeySet(d) == {d[i][1] : i \in 1..Len(d)}

DictGet(d, key, default) ==
    IF \E i \in 1..Len(d) : d[i][1] = key
    THEN d[CHOOSE i \in 1..Len(d) : d[i][1] = key][2]
    ELSE default

Reversed(s) == [i \in 1..Len(s) |-> s[Len(s) + 1 - i]]

----------------------------------------------------------------------------
(* parse_metric_modifiers                                                  *)

Returned(base, modifiers) ==
    [raised |-> None, base |-> base, modifiers |-> modifiers]

Raised(exception) == [raised |-> exception, base |-> <<>>, modifiers |-> <<>>]

\* The while loop: mn_mut[-1] of an emptied list raises IndexError.
RECURSIVE ParseLoop(_, _)
ParseLoop(mn_mut, modifiers) ==
    IF Len(mn_mut) = 0 THEN Raised("IndexError")
    ELSE IF HasColon(mn_mut[Len(mn_mut)])
    THEN LET kv == SplitColon(mn_mut[Len(mn_mut)])
         IN  ParseLoop(SubSeq(mn_mut, 1, Len(mn_mut) - 1),
                       DictSet(modifiers, kv[1], kv[2]))
    ELSE Returned(JoinSep(mn_mut), Reversed(modifiers))

parse_metric_modifiers(name) == ParseLoop(SplitSep(name), <<>>)

----------------------------------------------------------------------------
(* aggregate_metrics                                                       *)

\* float("inf") and float("-inf"): above and below every metric value, and
\* truthy.
PosInf == MaxVal + 1
NegInf == 0 - PosInf

Values == 0..MaxVal

\* A MetricAggregator: (initial accumulator, reducer).
Aggregator(start, fn) == [start |-> start, fn |-> fn]

\* Metric.aggregator is Optional.
NoAggregator == Aggregator(0, None)

\* A registry value: a bare MetricAggregator tuple, or a Metric carrying one.
TupleEntry(aggregator) ==
    [is_metric |-> FALSE, dont_aggregate |-> {}, aggregator |-> aggregator]

MetricEntry(aggregator, dont_aggregate) ==
    [is_metric |-> TRUE, dont_aggregate |-> dont_aggregate, aggregator |-> aggregator]

\* aggregation_fn([current, value]) for the reducers sum, min and max.
Reduce(fn, current, value) ==
    CASE fn = "sum" -> current + value
      [] fn = "min" -> IF current <= value THEN current ELSE value
      [] fn = "max" -> IF current >= value THEN current ELSE value

\* f"__{modifier}:{modifiers[modifier]}"
ModifierSuffix(modifier, value) == <<"_", "_">> \o modifier \o <<":">> \o value

\* A fold that forgets what the prefix has accumulated.
StartOnly(aggregated, metric_name_so_far, start) == start

\* aggregated.get(metric_name_so_far) or start: None and 0 are falsy.
CurrentOrStart(aggregated, metric_name_so_far, start) ==
    IF metric_name_so_far \in DOMAIN aggregated /\ aggregated[metric_name_so_far] # 0
    THEN aggregated[metric_name_so_far]
    ELSE start

\* An exemption test that looks at the first modifier only.
IsExemptByFirst(modifier_names, dont_aggregate) ==
    Len(modifier_names) > 0 /\ modifier_names[1] \in dont_aggregate

\* len(set(modifier_names).intersection(set(dont_aggregate)))
IsExempt(modifier_names, dont_aggregate) ==
    Cardinality({modifier_names[i] : i \in 1..Len(modifier_names)} \cap dont_aggregate) # 0

\* The inner loop, from modifier number j on: one fold per modifier, under
\* the name built from the modifiers before it.
RECURSIVE FoldPrefixes(_, _, _, _, _, _)
FoldPrefixes(aggregated, metric_name_so_far, modifiers, j, value, entry) ==
    IF j > Len(modifiers) THEN aggregated
    ELSE LET current == CurrentOrStart(aggregated, metric_name_so_far, entry.start)
             written == (metric_name_so_far :> Reduce(entry.fn, current, value))
                            @@ aggregated
         IN  FoldPrefixes(written,
                          metric_name_so_far
                              \o ModifierSuffix(modifiers[j][1], modifiers[j][2]),
                          modifiers, j + 1, value, entry)

\* The outer loop, from entry number i on.
RECURSIVE AggregateLoop(_, _, _, _)
AggregateLoop(items, i, registry, aggregated) ==
    IF i > Len(items) THEN [raised |-> None, aggregated |-> aggregated]
    ELSE
        LET name == items[i][1]
            value == items[i][2]
            p == parse_metric_modifiers(name)
        IN  IF p.raised # None THEN [raised |-> p.raised, aggregated |-> <<>>]
            ELSE IF Len(p.modifiers) < 1
            THEN AggregateLoop(items, i + 1, registry, aggregated)
            ELSE IF p.base \notin DOMAIN registry
            THEN AggregateLoop(items, i + 1, registry, aggregated)
            ELSE
                LET got == registry[p.base]
                    dont_aggregate == IF got.is_metric THEN got.dont_aggregate ELSE {}
                    entry == got.aggregator
                IN  IF entry.fn = None
                    THEN AggregateLoop(items, i + 1, registry, aggregated)
                    ELSE IF IsExempt(DictKeys(p.modifiers), dont_aggregate)
                    THEN AggregateLoop(items, i + 1, registry, aggregated)
                    ELSE AggregateLoop(items, i + 1, registry,
                             FoldPrefixes(aggregated, p.base, p.modifiers, 1,
                                          value, entry))

\* dict(input)
AsDict(items) ==
    [n \in {items[i][1] : i \in 1..Len(items)} |->
        items[CHOOSE i \in 1..Len(items) : items[i][1] = n][2]]

aggregate_metrics(items, registry) ==
    LET loop == AggregateLoop(items, 1, registry, <<>>)
    IN  IF loop.raised # None
        THEN [raised |-> loop.raised, value |-> <<>>]
        ELSE [raised |-> None, value |-> loop.aggregated @@ AsDict(items)]

----------------------------------------------------------------------------
(* MetricDiff                                                              *)

\* TableVerbosity
NONE == 0
CRITICAL == 1
WORSE == 2
CHANGED == 3
ALL == 4

\* A MetricComparisonResult, as far as this file reads it: metric_name, the
\* flags critical and better ("True", "False" or None) and what is_changed()
\* answers. The three strings of format_values() are the result's own.
ComparisonResult(name, critical, better, changed) ==
    [metric_name |-> name, critical |-> critical, better |-> better,
     changed |-> changed]

\* What a comparison may find out about one metric.
Outcomes == [critical : BOOLEAN, better : {"True", "False", None}, changed : BOOLEAN]

\* metric_object.compare(lhs_value, rhs_value, significant_figures, modifiers):
\* the comparator decides the flags.
Compare(metric, outcome) ==
    ComparisonResult(metric, outcome.critical, outcome.better, outcome.changed)

\* sorted(keys), by str <.
RECURSIVE SortedKeys(_)
SortedKeys(keys) ==
    IF keys = {} THEN <<>>
    ELSE LET least == CHOOSE k \in keys : \A other \in keys \ {k} : StrLess(k, other)
         IN  <<least>> \o SortedKeys(keys \ {least})

\* filter.filter(names): the names the Filter accepts, in the order given.
FilterNames(accepted, names) == SelectSeq(names, LAMBDA name : name \in accepted)

\* The bases Metric.by_name has a Metric for.
by_name == {<<"m">>, <<"n">>}

\* The generator of from_metrics, from metric number i on. Every value is of
\* one type, so no value is coerced.
RECURSIVE GeneratorLoop(_, _, _, _, _, _)
GeneratorLoop(metrics, i, g, n, outcome, yielded) ==
    IF i > Len(metrics) THEN [raised |-> None, value |-> yielded]
    ELSE
        LET metric == metrics[i]
            p == parse_metric_modifiers(metric)
        IN  IF metric \notin DOMAIN g
            THEN GeneratorLoop(metrics, i + 1, g, n, outcome, yielded)
            ELSE IF p.raised # None THEN [raised |-> p.raised, value |-> <<>>]
            ELSE IF p.base \in by_name
            THEN GeneratorLoop(metrics, i + 1, g, n, outcome,
                               Append(yielded, Compare(metric, outcome[metric])))
            ELSE GeneratorLoop(metrics, i + 1, g, n, outcome, yielded)

\* MetricDiff(generator(gold, new)): __init__ runs the generator to its end.
from_metrics(g, n, accepted, outcome) ==
    GeneratorLoop(FilterNames(accepted, SortedKeys(DOMAIN n)), 1, g, n, outcome, <<>>)

\* list < list, element by element, a proper prefix first.
ListLess(s, t) ==
    \E i \in 1..Len(t) :
        /\ i <= Len(s) + 1
        /\ \A j \in 1..(i - 1) : s[j] = t[j]
        /\ \/ i = Len(s) + 1
           \/ (i <= Len(s) /\ StrLess(s[i], t[i]))

\* _key_from_metrics: the base for the field "", else the value of the
\* modifier of that name, "" when the metric has none. The names of a
\* MetricDiff have been parsed by from_metrics.
key_from_metrics(fields, metric) ==
    LET p == parse_metric_modifiers(metric)
    IN  [i \in 1..Len(fields) |->
            IF fields[i] = <<>> THEN p.base ELSE DictGet(p.modifiers, fields[i], <<>>)]

\* sorted(differences, key=...): stable, ascending.
RECURSIVE SortedByKey(_, _)
SortedByKey(rows, fields) ==
    IF Len(rows) = 0 THEN <<>>
    ELSE LET Key(row) == key_from_metrics(fields, row.metric_name)
             first == SetMin({i \in 1..Len(rows) :
                         \A j \in 1..Len(rows) : ~ ListLess(Key(rows[j]), Key(rows[i]))})
         IN  <<rows[first]>>
                 \o SortedByKey(SubSeq(rows, 1, first - 1)
                                    \o SubSeq(rows, first + 1, Len(rows)), fields)

\* The four buckets of render_md: a row lands in the first that takes it.
InCritical(row) == row.critical
InWorse(row) == ~ row.critical /\ row.better = "False"
InChanged(row) == ~ row.critical /\ row.better # "False" /\ row.changed
InRemaining(row) == ~ row.critical /\ row.better # "False" /\ ~ row.changed

\* A tier that lists its own bucket and none of the tiers below it.
ListedOwnBucketOnly(critical, worse, changed, remaining, verbosity) ==
    CASE verbosity = CRITICAL -> critical
      [] verbosity = WORSE -> worse
      [] verbosity = CHANGED -> changed
      [] verbosity = ALL -> remaining
      [] OTHER -> <<>>

\* listed_differences
ListedDifferences(critical, worse, changed, remaining, verbosity) ==
    (IF verbosity >= CRITICAL THEN critical ELSE <<>>)
        \o (IF verbosity >= WORSE THEN worse ELSE <<>>)
        \o (IF verbosity >= CHANGED THEN changed ELSE <<>>)
        \o (IF verbosity >= ALL THEN remaining ELSE <<>>)

\* The glyph after the delta: U+2B55 for better, U+2757 for worse, U+203C for
\* a critical change.
Emoji(row) ==
    IF row.critical /\ row.changed THEN " critical"
    ELSE IF row.better = None THEN ""
    ELSE IF row.better = "True" THEN " better"
    ELSE " worse"

TableRow(row) == [metric_name |-> row.metric_name, emoji |-> Emoji(row)]

\* The table: "" is no header and no rows.
Table(header, rows) == [header |-> header, rows |-> rows]

EmptyTable == Table(FALSE, <<>>)

\* sort_by is falsy as None and as an empty list: both are <<>> here.
render_md(rows, fields, verbosity) ==
    IF verbosity = NONE THEN EmptyTable
    ELSE
        LET sorted == IF Len(fields) > 0 THEN SortedByKey(rows, fields) ELSE rows
            listed == ListedDifferences(SelectSeq(sorted, InCritical),
                                        SelectSeq(sorted, InWorse),
                                        SelectSeq(sorted, InChanged),
                                        SelectSeq(sorted, InRemaining),
                                        verbosity)
        IN  IF Len(listed) > 0
            THEN Table(TRUE, [i \in 1..Len(listed) |-> TableRow(listed[i])])
            ELSE EmptyTable

\* MetricStatistics
MetricStatistics(better, worse, critical, unchanged) ==
    [better |-> better, worse |-> worse, critical |-> critical,
     unchanged |-> unchanged]

\* stats, from row number i on.
RECURSIVE StatsLoop(_, _, _)
StatsLoop(rows, i, st) ==
    IF i > Len(rows) THEN st
    ELSE
        LET row == rows[i]
            counted ==
                IF ~ row.changed THEN [st EXCEPT !.unchanged = @ + 1]
                ELSE IF row.better # None
                THEN IF row.better = "True"
                     THEN [st EXCEPT !.better = @ + 1]
                     ELSE [st EXCEPT !.worse = @ + 1]
                ELSE st
        IN  StatsLoop(rows, i + 1,
                      IF row.critical THEN [counted EXCEPT !.critical = @ + 1]
                      ELSE counted)

stats(rows) == StatsLoop(rows, 1, MetricStatistics(0, 0, 0, 0))

----------------------------------------------------------------------------
(* The calls the model makes, and what they are made on.                   *)

NotCalled == [raised |-> "not called"]

ParseIdle ==
    /\ metric_name = <<>>
    /\ built_base = <<>>
    /\ built_mods = <<>>
    /\ parsed = NotCalled

AggregateIdle ==
    /\ input = <<>>
    /\ aggregator_by_metric = <<>>
    /\ final_values = NotCalled

DiffIdle ==
    /\ gold = <<>>
    /\ new = <<>>
    /\ filter = {}
    /\ differences = NotCalled

ReportIdle ==
    /\ sort_by = <<>>
    /\ table_verbosity = NONE
    /\ table = NotCalled
    /\ statistics = NotCalled

parseVars == <<metric_name, built_base, built_mods, parsed>>
aggregateVars == <<input, aggregator_by_metric, final_values>>
diffVars == <<gold, new, filter, differences>>
reportVars == <<sort_by, table_verbosity, table, statistics>>

\* Every string of at most n characters of alphabet.
Strings(alphabet, n) == UNION {[1..k -> alphabet] : k \in 0..n}

\* A name as its producer writes it: the base, then one "__key:value" per
\* modifier.
RECURSIVE BuildName(_, _)
BuildName(base, mods) ==
    IF Len(mods) = 0 THEN base
    ELSE BuildName(base \o ModifierSuffix(mods[1][1], mods[1][2]), Tail(mods))

(* parse_metric_modifiers on a name joined from a base and modifier segments. *)

ParseAlphabet == {"a", "b", ":", "_"}
ParseWords == {<<"a">>, <<"b">>}
ParseSegments == ParseWords \X ParseWords

InitParse ==
    /\ pc = "parse"
    /\ built_base \in Strings(ParseAlphabet, MaxBaseLen)
    /\ built_mods \in UNION {[1..k -> ParseSegments] : k \in 0..MaxMods}
    /\ metric_name = BuildName(built_base, built_mods)
    /\ parsed = NotCalled
    /\ AggregateIdle /\ DiffIdle /\ ReportIdle

Parse ==
    /\ pc = "parse"
    /\ parsed' = parse_metric_modifiers(metric_name)
    /\ pc' = "parsed"
    /\ UNCHANGED <<metric_name, built_base, built_mods, aggregateVars, diffVars,
                   reportVars>>

SpecParse == InitParse /\ [][Parse]_vars

(* aggregate_metrics on a snapshot and a registry.                         *)

M == <<"m">>
A == <<"a">>
B == <<"b">>
K == <<"k">>
X == <<"x">>
Y == <<"y">>

AggregateNames ==
    { M,
      BuildName(M, <<<<A, X>>>>),
      BuildName(M, <<<<A, X>>, <<B, X>>>>),
      BuildName(M, <<<<A, X>>, <<B, Y>>>>),
      BuildName(M, <<<<A, Y>>, <<B, X>>>>),
      BuildName(M, <<<<A, X>>, <<K, X>>>>),
      BuildName(<<"u">>, <<<<A, X>>>>),
      M \o <<"_", "_", "a", ":">>,
      <<"a", ":">> }

Aggregators ==
    {Aggregator(0, "sum"), Aggregator(PosInf, "min"), Aggregator(NegInf, "max")}

RegistryEntries ==
    {TupleEntry(a) : a \in Aggregators}
        \cup {MetricEntry(a, d) :
                 a \in {Aggregator(0, "sum"), Aggregator(PosInf, "min")},
                 d \in {{}, {K}}}
        \cup {MetricEntry(NoAggregator, {})}

\* The mappings of at most n entries over names and values, in every
\* iteration order.
Snapshots(names, values, n) ==
    {s \in UNION {[1..k -> names \X values] : k \in 0..n} :
        \A i, j \in 1..Len(s) : i # j => s[i][1] # s[j][1]}

InitAggregate ==
    /\ pc = "aggregate"
    /\ input \in Snapshots(AggregateNames, Values, MaxEntries)
    /\ aggregator_by_metric \in {(M :> e) : e \in RegistryEntries}
    /\ final_values = NotCalled
    /\ ParseIdle /\ DiffIdle /\ ReportIdle

Aggregate ==
    /\ pc = "aggregate"
    /\ final_values' = aggregate_metrics(input, aggregator_by_metric)
    /\ pc' = "aggregated"
    /\ UNCHANGED <<input, aggregator_by_metric, parseVars, diffVars, reportVars>>

SpecAggregate == InitAggregate /\ [][Aggregate]_vars

(* MetricDiff.from_metrics on two snapshots and a filter.                  *)

N == <<"n">>

DiffNames ==
    { BuildName(M, <<<<A, Y>>>>),
      BuildName(M, <<<<A, X>>>>),
      N,
      <<"u">>,
      <<"a", ":", "x">> }

\* The snapshots of at most n entries, as lookup tables.
Mappings(names, values, n) ==
    UNION {[keys -> values] : keys \in {k \in SUBSET names : Cardinality(k) <= n}}

InitFrom ==
    /\ pc = "from_metrics"
    /\ gold \in Mappings(DiffNames, Values, MaxKeys)
    /\ new \in Mappings(DiffNames, Values, MaxKeys)
    /\ filter \in {DiffNames, DiffNames \ {N}}
    /\ differences = NotCalled
    /\ ParseIdle /\ AggregateIdle /\ ReportIdle

FromMetrics ==
    /\ pc = "from_metrics"
    /\ \E outcome \in [DOMAIN new -> Outcomes] :
           differences' = from_metrics(gold, new, filter, outcome)
    /\ pc' = "diffed"
    /\ UNCHANGED <<gold, new, filter, parseVars, aggregateVars, reportVars>>

SpecFrom == InitFrom /\ [][FromMetrics]_vars

(* render_md and stats on a MetricDiff.                                    *)

\* Names from_metrics has parsed, so that _key_from_metrics parses them too.
ReportNames ==
    {BuildName(M, <<<<A, Y>>>>), BuildName(M, <<<<A, X>>>>), N}

\* MetricDiff(differences): at most n results, of distinct metrics.
Differences(n) ==
    {d \in UNION {[1..k -> {Compare(name, o) : name \in ReportNames, o \in Outcomes}] :
                     k \in 0..n} :
        \A i, j \in 1..Len(d) : i # j => d[i].metric_name # d[j].metric_name}

InitReport ==
    /\ pc = "report"
    /\ differences \in {[raised |-> None, value |-> d] : d \in Differences(MaxRows)}
    /\ gold = <<>> /\ new = <<>> /\ filter = {}
    /\ ReportIdle
    /\ ParseIdle /\ AggregateIdle

RenderMd ==
    /\ pc = "report"
    /\ \E fields \in {<<>>, <<A>>, <<<<>>, A>>}, verbosity \in NONE..ALL :
           /\ sort_by' = fields
           /\ table_verbosity' = verbosity
           /\ table' = render_md(differences.value, fields, verbosity)
    /\ pc' = "rendered"
    /\ UNCHANGED <<statistics, diffVars, parseVars, aggregateVars>>

Stats ==
    /\ pc = "report"
    /\ statistics' = stats(differences.value)
    /\ pc' = "counted"
    /\ UNCHANGED <<sort_by, table_verbosity, table, diffVars, parseVars,
                   aggregateVars>>

SpecRender == InitReport /\ [][RenderMd]_vars

SpecStats == InitReport /\ [][Stats]_vars

Init == InitParse \/ InitAggregate \/ InitFrom \/ InitReport

Next == Parse \/ Aggregate \/ FromMetrics \/ RenderMd \/ Stats

Spec == Init /\ [][Next]_vars

----------------------------------------------------------------------------
(* Claims about aggregate_metrics, under SpecAggregate.                    *)

Rule == aggregator_by_metric[M]

InputNames == {input[i][1] : i \in 1..Len(input)}

\* The sum of the values of the entries of items.
RECURSIVE SumValues(_)
SumValues(items) ==
    IF Len(items) = 0 THEN 0 ELSE items[1][2] + SumValues(Tail(items))

LeafAB(va, vb) == BuildName(M, <<<<A, va>>, <<B, vb>>>>)

\* The registered, modifier-bearing, non-exempt entries: the ones the loop
\* folds.
IsAggregated(item) ==
    LET p == parse_metric_modifiers(item[1])
    IN  /\ p.raised = None
        /\ Len(p.modifiers) >= 1
        /\ p.base \in DOMAIN aggregator_by_metric
        /\ aggregator_by_metric[p.base].aggregator.fn # None
        /\ ~ (/\ aggregator_by_metric[p.base].is_metric
              /\ DictKeySet(p.modifiers)
                     \cap aggregator_by_metric[p.base].dont_aggregate # {})

\* The names made of the base and a proper prefix of the modifiers of item.
ProperPrefixes(item) ==
    LET p == parse_metric_modifiers(item[1])
    IN  {BuildName(p.base, SubSeq(p.modifiers, 1, j)) : j \in 0..(Len(p.modifiers) - 1)}

WrittenNames ==
    UNION {ProperPrefixes(input[i]) : i \in {j \in 1..Len(input) : IsAggregated(input[j])}}

\* By the grammar of modifier_rx, name ends in no modifier segment.
HasZeroModifiers(name) ==
    LET parts == SplitSep(name) IN ~ ModifierRxSearch(parts[Len(parts)])

\* C1: aggregate_metrics is order independent: with a reducer that is
\* associative and commutative and has the initial accumulator as its neutral
\* element (sum/0, min/+inf, max/-inf), every iteration order of the input
\* mapping returns the same value under every name, values of 0 included.
C1_OrderIndependent ==
    pc = "aggregated" =>
        \A f \in Permutations(1..Len(input)) :
            aggregate_metrics([i \in 1..Len(input) |-> input[f[i]]],
                              aggregator_by_metric) = final_values

\* C2: with a summing rule (0, sum) for the base and no exemption, on a
\* snapshot of leaves base__a:<va>__b:<vb> the result holds under base the sum
\* of all leaves and under each base__a:<v> the sum of the leaves whose a is v.
C2_SumRollUp ==
    (/\ pc = "aggregated"
     /\ Rule.aggregator = Aggregator(0, "sum")
     /\ Rule.dont_aggregate \cap {A, B} = {}
     /\ Len(input) > 0
     /\ InputNames \subseteq {LeafAB(va, vb) : va \in {X, Y}, vb \in {X, Y}})
    => /\ final_values.raised = None
       /\ M \in DOMAIN final_values.value
       /\ final_values.value[M] = SumValues(input)
       /\ \A va \in {X, Y} :
            LET HasA(item) == item[1] \in {LeafAB(va, vb) : vb \in {X, Y}}
                under == BuildName(M, <<<<A, va>>>>)
            IN  IF \E i \in 1..Len(input) : HasA(input[i])
                THEN /\ under \in DOMAIN final_values.value
                     /\ final_values.value[under] = SumValues(SelectSeq(input, HasA))
                ELSE under \notin DOMAIN final_values.value

\* Two leaves that differ in a, both non-zero, have been rolled up.
C2_Witness ==
    /\ pc = "aggregated"
    /\ Rule.aggregator = Aggregator(0, "sum")
    /\ Rule.dont_aggregate \cap {A, B} = {}
    /\ Len(input) = 2
    /\ InputNames = {LeafAB(X, Y), LeafAB(Y, X)}
    /\ \A i \in 1..Len(input) : input[i][2] = 1
    /\ final_values.raised = None
    /\ final_values.value[M] = 2
    /\ final_values.value[BuildName(M, <<<<A, X>>>>)] = 1

\* An entry of the base whose parsed modifiers hold a key of dont_aggregate.
IsExemptEntry(item) ==
    LET p == parse_metric_modifiers(item[1])
    IN  /\ p.raised = None
        /\ p.base = M
        /\ DictKeySet(p.modifiers) \cap Rule.dont_aggregate # {}

\* C5: an entry whose modifiers hold a key the rule of its base declares in
\* dont_aggregate is folded into no prefix and creates no prefix key: the
\* prefix aggregates are those of the input without such entries.
C5_Exemption ==
    (pc = "aggregated" /\ Rule.is_metric /\ Rule.dont_aggregate # {}) =>
        LET kept == SelectSeq(input, LAMBDA item : ~ IsExemptEntry(item))
            rest == AggregateLoop(kept, 1, aggregator_by_metric, <<>>)
        IN  /\ final_values.raised = rest.raised
            /\ final_values.raised = None =>
                 final_values.value = rest.aggregated @@ AsDict(input)

\* An entry with the exempt key k in second position was skipped while
\* another entry of the same base was rolled up.
C5_Witness ==
    /\ pc = "aggregated"
    /\ Rule.is_metric
    /\ Rule.dont_aggregate = {K}
    /\ Rule.aggregator = Aggregator(0, "sum")
    /\ input = << <<BuildName(M, <<<<A, X>>, <<K, X>>>>), 1>>, <<LeafAB(X, Y), 1>> >>
    /\ final_values.raised = None
    /\ final_values.value[M] = 1
    /\ final_values.value[BuildName(M, <<<<A, X>>>>)] = 1

\* C6: aggregate_metrics writes only under strictly shorter modifier-prefixes
\* of the aggregated entries: it returns a snapshot whose keys are the input's
\* and those prefixes, every other entry keeps its input value, and a snapshot
\* whose names all have zero modifiers is returned unchanged.
C6_Frame ==
    pc = "aggregated" =>
        /\ final_values.raised = None
        /\ DOMAIN final_values.value = InputNames \cup WrittenNames
        /\ \A n \in InputNames \ WrittenNames :
             final_values.value[n] = AsDict(input)[n]
        /\ (\A n \in InputNames : HasZeroModifiers(n)) =>
             final_values.value = AsDict(input)

----------------------------------------------------------------------------
(* Claims about parse_metric_modifiers, under SpecParse.                   *)

LastPart(name) == LET parts == SplitSep(name) IN parts[Len(parts)]

\* C3: round trip: a name joined from a base whose last segment is not
\* modifier-shaped and well-formed key:value segments with distinct keys parses
\* back to that base and those modifiers in their order, and re-joining them
\* gives the name.
C3_RoundTrip ==
    (/\ pc = "parsed"
     /\ ~ ModifierRxSearch(LastPart(built_base))
     /\ \A i, j \in 1..Len(built_mods) : i # j => built_mods[i][1] # built_mods[j][1])
    => /\ parsed = Returned(built_base, built_mods)
       /\ BuildName(parsed.base, parsed.modifiers) = metric_name

\* C4: parse_metric_modifiers never fails, and a name none of whose segments
\* matches the modifier grammar (segments such as "a:" or ":" included) comes
\* back whole as the base, with no modifiers.
C4_NeverFails ==
    pc = "parsed" =>
        /\ parsed.raised = None
        /\ (\A i \in 1..Len(SplitSep(metric_name)) :
                ~ ModifierRxSearch(SplitSep(metric_name)[i]))
             => parsed = Returned(metric_name, <<>>)

----------------------------------------------------------------------------
(* Claims about MetricDiff.                                                *)

\* The names, in order, that the claim has from_metrics compare.
ComparedNames ==
    SelectSeq(FilterNames(filter, SortedKeys(DOMAIN new)),
              LAMBDA name :
                  /\ name \in DOMAIN gold
                  /\ parse_metric_modifiers(name).raised = None
                  /\ parse_metric_modifiers(name).base \in by_name)

\* C7: from_metrics yields one result for each name of filter(sorted(new))
\* that is in gold and whose parsed base is registered, in that order, and
\* nothing else; a name absent from gold yields nothing and raises nothing.
C7_Membership ==
    pc = "diffed" =>
        /\ differences.raised = None
        /\ [i \in 1..Len(differences.value) |-> differences.value[i].metric_name]
               = ComparedNames

RowSet(t) == {t.rows[i] : i \in 1..Len(t.rows)}

\* The tier a result is listed from.
TierOf(row) ==
    IF row.critical THEN CRITICAL
    ELSE IF row.better = "False" THEN WORSE
    ELSE IF row.changed THEN CHANGED
    ELSE ALL

Rendered == pc = "rendered"

\* C8: the rows rendered at CRITICAL are among those at WORSE, those among the
\* ones at CHANGED, those among the ones at ALL, whatever the sort; NONE gives
\* the empty string, and so does a verbosity that selects no result.
C8_VerbosityInclusion ==
    Rendered =>
        /\ table_verbosity = NONE => table = EmptyTable
        /\ table_verbosity < ALL =>
             RowSet(table)
                 \subseteq RowSet(render_md(differences.value, sort_by,
                                            table_verbosity + 1))
        /\ {table.rows[i].metric_name : i \in 1..Len(table.rows)}
               = {differences.value[i].metric_name :
                     i \in {j \in 1..Len(differences.value) :
                               TierOf(differences.value[j]) <= table_verbosity}}
        /\ table.rows = <<>> => table = EmptyTable

\* A sorted table at CRITICAL lists one of two results; the other is worse.
C8_Witness ==
    /\ Rendered
    /\ table_verbosity = CRITICAL
    /\ sort_by = <<A>>
    /\ Len(differences.value) = 2
    /\ differences.value[1].critical
    /\ ~ differences.value[2].critical /\ differences.value[2].better = "False"
    /\ table.header
    /\ Len(table.rows) = 1

\* C9: the critical counter of stats is the number of results that are
\* critical and changed.
C9_CriticalAndChanged ==
    pc = "counted" =>
        statistics.critical
            = Cardinality({i \in 1..Len(differences.value) :
                              differences.value[i].critical
                                  /\ differences.value[i].changed})

\* C10: a rendered row of a result that is unchanged and not critical has no
\* glyph, whatever its better flag.
C10_NoGlyphUnchanged ==
    Rendered =>
        \A i \in 1..Len(table.rows) :
            \A j \in 1..Len(differences.value) :
                (/\ differences.value[j].metric_name = table.rows[i].metric_name
                 /\ ~ differences.value[j].changed
                 /\ ~ differences.value[j].critical)
                => table.rows[i].emoji = ""

====
